---- MODULE Spec2Model ----
(***************************************************************************)
(* Bench interaction and simulated-effect model of src/app.js.             *)
(*                                                                         *)
(* The page is single-threaded: every event handler (drop, dblclick) runs  *)
(* to completion, so each handler is one action.  Numbers are fixed point: *)
(*   - a colour channel c (a byte 0..255) is held as c * ColorScale, so    *)
(*     that MaxDrops successive lerps by 0.2 stay exact;                   *)
(*   - an affinity a is held in hundredths (0.05 is 5);                    *)
(*   - Math.random() is j / RandDen for j in 0..RandDen-1;                 *)
(*   - an activation is held in units of 1/ActScale, a brainwave value in  *)
(*     units of 1/BwScale;                                                 *)
(*   - the normalized drop coordinate x is k / XDen for k in -XDen..XDen.  *)
(* THREE.Color is an external library: a colour is the triple of its       *)
(* channels, and parsing a '#rrggbb' string and printing it back with      *)
(* getHexString() is the library's exact round trip on the three bytes.    *)
(***************************************************************************)
EXTENDS Integers, Sequences, FiniteSets

VARIABLES
    beakers,         \* app.js:66   <<beaker>>, beaker = [x, color, contents]
    markers,         \* the floating spheres added to the scene (app.js:176-182)
    summaryText,     \* #summaryText
    connectionInfo,  \* #connectionInfo
    brain,           \* the holographic brain's emissive colour and opacity
    chart,           \* window.brainChart.data.datasets[0..3].data
    warnings,        \* #warnings
    lastOp,          \* history: the last handler that ran, its inputs and outcome
    dropsFound,      \* history: number of drops that found their molecule
    pushed           \* history: the brainwave samples pushed onto the chart

vars == <<beakers, markers, summaryText, connectionInfo, brain, chart, warnings,
          lastOp, dropsFound, pushed>>

\* ---------------------------------------------------------------- bounds
MaxDrops == 2
XDen == 4
RandDen == 2
MaxEmits == 5

\* ------------------------------------------------------------- constants
beakerCount == 3
LerpDen == 5
DefaultAffinity == 5

ColorScale == LerpDen ^ MaxDrops
ActScale == 1000 * RandDen
BwScale == ActScale * 100 * RandDen

\* ------------------------------------------------------------- colours
\* A CSS colour string '#rrggbb': its three bytes and whether the hex digits
\* are written in upper case.
Hex(r, g, b, upper) == [rgb |-> <<r, g, b>>, upper |-> upper]

toLowerCase(s) == [s EXCEPT !.upper = FALSE]

\* new THREE.Color('#rrggbb')
THREEColor(s) == [ch \in 1..3 |-> s.rgb[ch] * ColorScale]

\* '#' + color.getHexString(): always lower case
getHexString(c) == [rgb |-> [ch \in 1..3 |-> c[ch] \div ColorScale], upper |-> FALSE]

LiquidColor == Hex(102, 194, 255, FALSE)      \* 0x66c2ff, '#66c2ff'
SphereDefaultColor == Hex(242, 242, 242, FALSE)  \* '#f2f2f2'
NoColor == Hex(0, 0, 0, FALSE)                \* placeholder of an absent color field

\* -------------------------------------------------------------- catalog
\* molecules.json as loaded by init(): unique ids; two molecules share a
\* display colour (written in different case), one has no colour, no safety
\* flag and no targets; one target has affinity 0.
Mol(id, name, hasColor, color, safety, hasTargets, targets) ==
    [id |-> id, name |-> name, hasColor |-> hasColor, color |-> color,
     safety |-> safety, hasTargets |-> hasTargets, targets |-> targets]

molecules ==
    << Mol("m1", "Psilocin", TRUE, Hex(255, 0, 0, FALSE), "red", TRUE,
           << [receptor |-> "5-HT2A", affinity |-> 90],
              [receptor |-> "D2", affinity |-> 0] >>),
       Mol("m2", "Dopamine", TRUE, Hex(255, 0, 0, TRUE), "green", TRUE,
           << [receptor |-> "D2", affinity |-> 100] >>),
       Mol("m3", "Unknown", FALSE, NoColor, "", FALSE, << >>) >>

\* molecules.find(m => m.id === id): the first match, as a set of indices
MinOf(S) == CHOOSE i \in S : \A j \in S : i <= j

\* faulty variant: an unknown id falls back to the first molecule
findById_first(id) ==
    IF id = "" THEN {} ELSE {1}

findById(id) ==
    LET hits == {i \in 1..Len(molecules) : molecules[i].id = id}
    IN  IF hits = {} THEN {} ELSE {MinOf(hits)}

\* ------------------------------------------------------------ the bench
\* initThreeScene, app.js:100-116
InitBeakers ==
    [i \in 1..beakerCount |->
        [x |-> -4 + (i - 1) * 4, color |-> THREEColor(LiquidColor), contents |-> << >>]]

\* faulty variant: the step is 0.8 instead of 0.2
lerp_toward4(c, add) ==
    [ch \in 1..3 |-> c[ch] + ((add[ch] - c[ch]) * 4) \div LerpDen]

\* color.lerp(add, 0.2): this.c += (add.c - this.c) * 0.2, per channel
lerp(c, add) ==
    [ch \in 1..3 |-> c[ch] + (add[ch] - c[ch]) \div LerpDen]

\* Math.round(v) for v = num / den, den > 0: floor(v + 1/2)
MathRound(num, den) == (2 * num + den) \div (2 * den)

Min2(a, b) == IF a < b THEN a ELSE b
Max2(a, b) == IF a > b THEN a ELSE b

\* app.js:162 with x = k / XDen; the index is 0-based as in the source
dropIndex(k) ==
    Min2(Max2(MathRound((k + XDen) * 3, 2 * XDen), 0), beakerCount - 1)

\* faulty variant: contents.unshift(mol) instead of push
addMoleculeToBeaker_unshift(mol, idx, bks) ==
    [bks EXCEPT ![idx + 1] =
        [@ EXCEPT !.contents = <<mol.id>> \o @,
                  !.color = lerp(@, THREEColor(IF mol.hasColor THEN mol.color ELSE LiquidColor))]]

\* beaker.contents.push(mol) and the liquid's new colour, app.js:168-173
addMoleculeToBeaker(mol, idx, bks) ==
    [bks EXCEPT ![idx + 1] =
        [@ EXCEPT !.contents = Append(@, mol.id),
                  !.color = lerp(@, THREEColor(IF mol.hasColor THEN mol.color ELSE LiquidColor))]]

\* the floating sphere of app.js:176-182, placed above the beaker; y in tenths
floatingSphere(mol, idx, bks) ==
    [color |-> THREEColor(IF mol.hasColor THEN mol.color ELSE SphereDefaultColor),
     x |-> bks[idx + 1].x,
     y |-> 8 + 16 + Len(bks[idx + 1].contents) * 2,
     from |-> mol.id]    \* history: the molecule whose drop created the sphere

\* beakers.reduce((acc, b) => acc + b.contents.length, 0)
RECURSIVE reduceLengths(_, _)
reduceLengths(bks, n) ==
    IF n = 0 THEN 0 ELSE reduceLengths(bks, n - 1) + Len(bks[n].contents)

\* faulty variant: only the first beaker is counted
updateSummary_firstOnly(bks) ==
    [kind |-> "bench", total |-> Len(bks[1].contents), name |-> "", receptor |-> "",
     pct |-> 0, mood |-> ""]

updateSummary(bks) ==
    [kind |-> "bench", total |-> reduceLengths(bks, Len(bks)), name |-> "", receptor |-> "",
     pct |-> 0, mood |-> ""]

\* ----------------------------------------------------- the effect model
\* app.js is an ES module (it begins with import declarations), so all of its
\* code is strict-mode code.
strictMode == TRUE

\* The right-hand side of app.js:16:
\*   (molecule.targets?.find(t => t.receptor === receptor)?.affinity) || 0.05
affinityOf(molecule, receptor) ==
    LET ts == IF molecule.hasTargets THEN molecule.targets ELSE << >>
        hits == {i \in 1..Len(ts) : ts[i].receptor = receptor}
    IN  IF hits = {} THEN DefaultAffinity
        ELSE IF ts[MinOf(hits)].affinity = 0 THEN DefaultAffinity
        ELSE ts[MinOf(hits)].affinity

NoBrainwave == [delta |-> 0, theta |-> 0, alpha |-> 0, beta |-> 0]

\* dataService.getSimulatedEffects(molecule, receptor); rnd[1..5] are the five
\* Math.random() draws in source order.  Line 16 assigns to the identifier
\* constAffinity, which is declared nowhere: in strict-mode code the
\* assignment throws a ReferenceError after its right-hand side is evaluated,
\* and nothing below it runs.
getSimulatedEffects(molecule, receptor, rnd) ==
    LET constAffinity == affinityOf(molecule, receptor)
        activation == Min2(ActScale, constAffinity * (8 * RandDen + 6 * rnd[1]))
        brainwave ==
            [delta |-> Max2(0, BwScale \div 10 + activation * 10 * rnd[2]),
             theta |-> Max2(0, BwScale \div 10 + activation * 8 * rnd[3]),
             alpha |-> Max2(0, BwScale \div 5 + activation * 12 * rnd[4]),
             beta |-> Max2(0, (15 * BwScale) \div 100 + activation * 9 * rnd[5])]
        mood == IF activation * 10 > 4 * ActScale THEN "elevated" ELSE "neutral"
        safety == IF molecule.safety = "" THEN "yellow" ELSE molecule.safety
    IN  IF strictMode
        THEN [threw |-> "ReferenceError", affinity |-> constAffinity, activation |-> -1,
              brainwave |-> NoBrainwave, mood |-> "", safety |-> "", receptor |-> receptor]
        ELSE [threw |-> "none", affinity |-> constAffinity, activation |-> activation,
              brainwave |-> brainwave, mood |-> mood, safety |-> safety,
              receptor |-> receptor]

\* The Math.random() draws one call consumes: none when line 16 throws.
Draws ==
    IF strictMode THEN {[i \in 1..5 |-> 0]} ELSE [1..5 -> 0..(RandDen - 1)]

\* ------------------------------------------------------------ the chart
\* initBrainChart, app.js:205-208
InitChart ==
    << << (12 * BwScale) \div 100, (14 * BwScale) \div 100, (11 * BwScale) \div 100,
          (10 * BwScale) \div 100 >>,
       << (8 * BwScale) \div 100, (9 * BwScale) \div 100, (13 * BwScale) \div 100,
          (10 * BwScale) \div 100 >>,
       << (20 * BwScale) \div 100, (19 * BwScale) \div 100, (21 * BwScale) \div 100,
          (18 * BwScale) \div 100 >>,
       << (15 * BwScale) \div 100, (16 * BwScale) \div 100, (14 * BwScale) \div 100,
          (13 * BwScale) \div 100 >> >>

\* faulty variant: the oldest sample is not evicted
pushShift_noShift(data, v) == Append(data, v)

\* data.push(v); data.shift()
pushShift(data, v) == Tail(Append(data, v))

\* displayConnectionResult(mol, sim), app.js:256-288
displayConnectionResult(mol, sim) ==
    /\ connectionInfo' =
         [name |-> mol.name, receptor |-> sim.receptor,
          pct10 |-> MathRound(sim.activation * 1000, ActScale),
          mood |-> sim.mood, safety |-> sim.safety]
    /\ brain' =
         [emissive |-> IF sim.safety = "red" THEN "ff6b6b"
                       ELSE IF sim.safety = "yellow" THEN "ffd36b" ELSE "79f2b2",
          opacity |-> 25 * ActScale + sim.activation * 60]
    /\ chart' =
         << pushShift(chart[1], sim.brainwave.delta),
            pushShift(chart[2], sim.brainwave.theta),
            pushShift(chart[3], sim.brainwave.alpha),
            pushShift(chart[4], sim.brainwave.beta) >>
    /\ summaryText' =
         [kind |-> "effect", total |-> 0, name |-> mol.name, receptor |-> sim.receptor,
          pct |-> MathRound(sim.activation * 100, ActScale), mood |-> sim.mood]
    /\ warnings' =
         (IF sim.safety = "red" THEN <<"high-risk">> ELSE << >>)
         \o (IF sim.safety = "yellow" THEN <<"caution">> ELSE << >>)
         \o <<"references">>
    /\ pushed' = Append(pushed, <<sim.brainwave.delta, sim.brainwave.theta,
                                  sim.brainwave.alpha, sim.brainwave.beta>>)

\* ------------------------------------------------------------- handlers
NoResponse == [cancelled |-> FALSE, text |-> "-"]

\* what prompt() can return: null (cancelled), '' or a typed text
Responses ==
    {[cancelled |-> TRUE, text |-> ""]}
    \cup {[cancelled |-> FALSE, text |-> t] : t \in {"", "1", "2", "3", "D2", "d2"}}

Op(kind) ==
    [kind |-> kind, id |-> "", k |-> 0, idx |-> -1, found |-> FALSE, hit |-> {},
     mol |-> "", dialog |-> FALSE, response |-> NoResponse, name |-> "",
     invoked |-> FALSE, affinity |-> -1, activation |-> -1, error |-> "none",
     emitted |-> 0]

DropIds == {"", "m1", "m2", "m3", "zz"}

\* the canvas 'drop' listener, app.js:152-164
dropHandler(id, k) ==
    LET found == findById(id)
    IN  IF id = "" \/ found = {}
        THEN /\ UNCHANGED <<beakers, markers, summaryText, dropsFound>>
             /\ lastOp' = [Op("drop") EXCEPT !.id = id, !.k = k]
        ELSE LET mol == molecules[MinOf(found)]
                 idx == dropIndex(k)
                 bks == addMoleculeToBeaker(mol, idx, beakers)
             IN  /\ beakers' = bks
                 /\ markers' = markers \cup {floatingSphere(mol, idx, bks)}
                 /\ summaryText' = updateSummary(bks)
                 /\ dropsFound' = dropsFound + 1
                 /\ lastOp' = [Op("drop") EXCEPT !.id = id, !.k = k, !.idx = idx,
                                                 !.found = TRUE, !.mol = mol.id]

Drop ==
    /\ \E id \in DropIds, k \in (-XDen)..XDen :
          /\ (id = "" \/ findById(id) = {} \/ dropsFound < MaxDrops)
          /\ dropHandler(id, k)
    /\ UNCHANGED <<connectionInfo, brain, chart, warnings, pushed>>

\* faulty variant: receptor === null, which lets '' through
notReceptor_nullOnly(response) == response.cancelled

\* !receptor, app.js:249
notReceptor(response) == response.cancelled \/ response.text = ""

\* app.js:250
receptorName(text) ==
    IF text = "1" THEN "5-HT2A"
    ELSE IF text = "2" THEN "D2"
    ELSE IF text = "3" THEN "GABA-A"
    ELSE text

\* showReceptorDialog(mol), app.js:247-253; op is the history record so far
showReceptorDialog(mol, response, op) ==
    IF notReceptor(response)
    THEN /\ UNCHANGED <<connectionInfo, brain, chart, warnings, summaryText, pushed>>
         /\ lastOp' = [op EXCEPT !.response = response]
    ELSE LET name == receptorName(response.text)
         IN  \E rnd \in Draws :
                LET sim == getSimulatedEffects(mol, name, rnd)
                    called == [op EXCEPT !.response = response, !.name = name,
                                         !.invoked = TRUE, !.affinity = sim.affinity,
                                         !.activation = sim.activation,
                                         !.error = sim.threw]
                IN  IF sim.threw # "none"
                    THEN /\ UNCHANGED <<connectionInfo, brain, chart, warnings,
                                        summaryText, pushed>>
                         /\ lastOp' = called
                    ELSE /\ Len(pushed) < MaxEmits
                         /\ displayConnectionResult(mol, sim)
                         /\ lastOp' = [called EXCEPT !.emitted = 1]

\* molecules.find(m => m.color && m.color.toLowerCase() === colorHex.toLowerCase())
findByColor(colorHex) ==
    LET hits == {i \in 1..Len(molecules) :
                    /\ molecules[i].hasColor
                    /\ toLowerCase(molecules[i].color) = toLowerCase(colorHex)}
    IN  IF hits = {} THEN {} ELSE {MinOf(hits)}

\* the 'dblclick' listener, app.js:222-244.  The raycast is the renderer's:
\* hit is the nearest Icosahedron sphere under the pointer, or nothing.
DblClick ==
    /\ \E hit \in {{}} \cup {{m} : m \in markers} :
          LET found == IF hit = {} THEN {}
                       ELSE findByColor(getHexString((CHOOSE m \in hit : TRUE).color))
              op == [Op("pick") EXCEPT !.hit = hit]
          IN  IF found = {}
              THEN /\ UNCHANGED <<connectionInfo, brain, chart, warnings, summaryText,
                                  pushed>>
                   /\ lastOp' = op
              ELSE \E response \in Responses :
                      showReceptorDialog(molecules[MinOf(found)], response,
                          [op EXCEPT !.mol = molecules[MinOf(found)].id, !.dialog = TRUE])
    /\ UNCHANGED <<beakers, markers, dropsFound>>

\* --------------------------------------------------------- specifications
Init ==
    /\ beakers = InitBeakers
    /\ markers = {}
    /\ summaryText = [kind |-> "initial", total |-> 0, name |-> "", receptor |-> "",
                      pct |-> 0, mood |-> ""]
    /\ connectionInfo = [name |-> "", receptor |-> "", pct10 |-> 0, mood |-> "",
                         safety |-> ""]
    /\ brain = [emissive |-> "3a9ef0", opacity |-> 14 * ActScale]
    /\ chart = InitChart
    /\ warnings = << >>
    /\ lastOp = Op("init")
    /\ dropsFound = 0
    /\ pushed = << >>

Next == Drop \/ DblClick

\* The page: drops and double-clicks in any order.
Spec == Init /\ [][Next]_vars

\* Effect Results as the data model describes them (activation in [0,1],
\* brainwave values >= 0, a mood, a safety flag), with a different value in
\* every band.
SimInputs ==
    {[threw |-> "none", affinity |-> 0, activation |-> (s * ActScale) \div 4,
      brainwave |-> [delta |-> (10 + s) * (BwScale \div 100),
                     theta |-> (20 + s) * (BwScale \div 100),
                     alpha |-> (30 + s) * (BwScale \div 100),
                     beta |-> (40 + s) * (BwScale \div 100)],
      mood |-> IF s > 1 THEN "elevated" ELSE "neutral",
      safety |-> <<"green", "yellow", "red">>[s], receptor |-> "D2"] : s \in 1..3}

\* displayConnectionResult applied to any molecule and any Effect Result.
Display ==
    /\ Len(pushed) < MaxEmits
    /\ \E i \in 1..Len(molecules), sim \in SimInputs :
          /\ displayConnectionResult(molecules[i], sim)
          /\ lastOp' = [Op("display") EXCEPT !.mol = molecules[i].id, !.emitted = 1]
    /\ UNCHANGED <<beakers, markers, dropsFound>>

SpecDisplay == Init /\ [][Display]_vars

\* ================================================================ claims
CatalogIds == {molecules[i].id : i \in 1..Len(molecules)}

MolOf(id) == molecules[CHOOSE i \in 1..Len(molecules) : molecules[i].id = id]

Selected(op) == op.dialog /\ ~op.response.cancelled /\ op.response.text # ""

Aborted(op) == op.dialog /\ (op.response.cancelled \/ op.response.text = "")

\* resolveDropTarget(x) of the specification, x = k / XDen, for the bench's beakers
resolveDropTarget(k) ==
    Min2(Max2(MathRound((k + XDen) * (beakerCount - 1), 2 * XDen), 0), beakerCount - 1)

\* C1: for every drop coordinate x in [-1, 1], the beaker that receives the
\* dropped molecule is round((x+1) * (beakerCount-1)/2) clamped to
\* [0, beakerCount-1].
C1_DropIndexIsResolveDropTarget ==
    (lastOp.kind = "drop" /\ lastOp.id \in CatalogIds)
        => /\ lastOp.idx = resolveDropTarget(lastOp.k)
           /\ Len(beakers[resolveDropTarget(lastOp.k) + 1].contents) > 0

\* C2: whenever a floating molecule is picked and the receptor selection is
\* non-empty, the effect model is invoked, completes without an error, and
\* exactly one Effect Result is emitted before the handler returns.
C2_PickEmitsOneResult ==
    (lastOp.kind = "pick" /\ Selected(lastOp))
        => /\ lastOp.invoked
           /\ lastOp.error = "none"
           /\ lastOp.emitted = 1

\* the affinity of the molecule's Target whose receptor is the name, or the
\* default when the molecule has no such Target
TargetAffinity(m, name) ==
    IF m.hasTargets /\ \E i \in 1..Len(m.targets) : m.targets[i].receptor = name
    THEN m.targets[CHOOSE i \in 1..Len(m.targets) : m.targets[i].receptor = name].affinity
    ELSE DefaultAffinity

\* C3: computeEffect uses the affinity a of the Target whose receptor equals
\* the name, for every a in [0,1], the default 0.05 only when there is no such
\* Target, and returns an activation in [0.8*a, min(1, 1.4*a)].
C3_AffinityAndActivation ==
    lastOp.invoked
        => LET a == TargetAffinity(MolOf(lastOp.mol), lastOp.name)
           IN  /\ lastOp.error = "none"
               /\ lastOp.affinity = a
               /\ lastOp.activation * 1000 >= 8 * a * ActScale
               /\ lastOp.activation * 1000 <= Min2(1000 * ActScale, 14 * a * ActScale)

\* C4: a cancelled or empty receptor selection aborts the pick: the effect
\* model is not invoked, nothing is emitted (connection info, chart, brain,
\* summary and warnings unchanged) and the bench is unchanged.
C4_CancelAborts ==
    [][ (lastOp'.kind = "pick" /\ Aborted(lastOp'))
            => /\ ~lastOp'.invoked
               /\ lastOp'.emitted = 0
               /\ lastOp'.error = "none"
               /\ UNCHANGED <<connectionInfo, chart, brain, summaryText, warnings,
                              pushed, beakers, markers, dropsFound>> ]_vars

C4_Witness ==
    /\ lastOp.kind = "pick"
    /\ lastOp.dialog
    /\ ~lastOp.response.cancelled
    /\ lastOp.response.text = ""
    /\ dropsFound > 0

\* C5: a drop whose payload is empty or names an id that is not in the catalog
\* changes no beaker's contents or colour, adds no floating marker, leaves the
\* summary alone and raises no error.
C5_UnknownDropIsNoOp ==
    [][ (lastOp'.kind = "drop" /\ lastOp'.id \notin CatalogIds)
            => /\ UNCHANGED <<beakers, markers, summaryText, dropsFound, connectionInfo,
                              chart, brain, warnings, pushed>>
               /\ lastOp'.error = "none" ]_vars

C5_Witness ==
    /\ lastOp.kind = "drop"
    /\ lastOp.id = "zz"
    /\ dropsFound > 0
    /\ markers # {}

\* C6: after any sequence of drops the total shown in the running summary is
\* the sum of the beakers' content lengths and the number of drops that found
\* their molecule.
C6_TotalIsSumOfLengths ==
    /\ (lastOp.kind = "drop" /\ lastOp.id \in CatalogIds) => summaryText.kind = "bench"
    /\ summaryText.kind = "bench"
         => /\ summaryText.total = Len(beakers[1].contents) + Len(beakers[2].contents)
                                     + Len(beakers[3].contents)
            /\ summaryText.total = dropsFound

C6_Witness ==
    /\ lastOp.kind = "drop"
    /\ lastOp.id \in CatalogIds
    /\ dropsFound >= 2
    /\ Cardinality({i \in 1..beakerCount : Len(beakers[i].contents) > 0}) >= 2

\* the colour an addition of molecule id blends in
AddedColor(id) ==
    IF MolOf(id).hasColor THEN THREEColor(MolOf(id).color) ELSE THREEColor(LiquidColor)

RECURSIVE lerpAll(_, _)
lerpAll(c, adds) ==
    IF adds = << >> THEN c ELSE lerpAll(lerp(c, Head(adds)), Tail(adds))

\* The weight of the i-th of n additions in the final colour: the final
\* channel value, in units of 1/ColorScale, when the i-th added colour is 1
\* and the initial colour and every other added colour are 0.
Influence(i, n) ==
    lerpAll([ch \in 1..3 |-> 0],
            [k \in 1..n |-> [ch \in 1..3 |-> IF k = i THEN ColorScale ELSE 0]])[1]

\* sum over i in 1..m of 4^(n-i) * 5^(i-1) * (channel ch of the i-th added colour)
RECURSIVE WeightedSum(_, _, _, _)
WeightedSum(contents, ch, n, m) ==
    IF m = 0 THEN 0
    ELSE WeightedSum(contents, ch, n, m - 1)
         + 4 ^ (n - m) * 5 ^ (m - 1) * AddedColor(contents[m])[ch]

\* the colour is the initial colour lerped once per addition, in order:
\* 5^n * colour = 4^n * initial + sum of 4^(n-i) * 5^(i-1) * added_i
BlendedOncePerAddition(b) ==
    LET n == Len(b.contents)
    IN  \A ch \in 1..3 :
           5 ^ n * b.color[ch]
             = 4 ^ n * THREEColor(LiquidColor)[ch] + WeightedSum(b.contents, ch, n, n)

\* C7 as stated: one lerp by 0.2 per addition, and in the final colour a later
\* addition has a smaller weight than an earlier one.
C7_LaterAdditionsWeighLess ==
    \A b \in 1..beakerCount :
       /\ BlendedOncePerAddition(beakers[b])
       /\ \A i, j \in 1..Len(beakers[b].contents) :
             i < j => Influence(j, Len(beakers[b].contents))
                        < Influence(i, Len(beakers[b].contents))

\* C7 as amended: one lerp by 0.2 per addition (toward the molecule's colour,
\* or '#66c2ff' when it has none), so the i-th of n additions has weight
\* 0.2 * 0.8^(n-i): a later addition has a larger weight than an earlier one.
C7_LaterAdditionsWeighMore ==
    \A b \in 1..beakerCount :
       LET n == Len(beakers[b].contents)
       IN  /\ BlendedOncePerAddition(beakers[b])
           /\ \A i \in 1..n : Influence(i, n) * 5 ^ n = 4 ^ (n - i) * 5 ^ (i - 1) * ColorScale
           /\ \A i, j \in 1..n : i < j => Influence(i, n) < Influence(j, n)

C7_Witness ==
    \E b \in 1..beakerCount :
       /\ Len(beakers[b].contents) >= 2
       /\ AddedColor(beakers[b].contents[1]) # AddedColor(beakers[b].contents[2])

\* the last four samples of a band: the initial ones, then those pushed
LastFour(seq) == SubSeq(seq, Len(seq) - 3, Len(seq))

\* C8: every emitted Effect Result pushes one value per band and evicts the
\* band's oldest sample: each band always holds the 4 most recent samples in
\* arrival order.
C8_RollingWindow ==
    \A band \in 1..4 :
       /\ Len(chart[band]) = 4
       /\ chart[band]
            = LastFour(InitChart[band] \o [i \in 1..Len(pushed) |-> pushed[i][band]])

C8_Witness ==
    /\ lastOp.kind = "display"
    /\ Len(pushed) >= 5
    /\ pushed[1] # pushed[2]

\* C9: a drop of a known molecule appends that molecule to the end of exactly
\* one beaker's contents and leaves every other beaker alone; no other step
\* changes any beaker.
C9_BenchChangesOnlyByAppend ==
    [][ IF lastOp'.kind = "drop" /\ lastOp'.id \in CatalogIds
        THEN \E b \in 1..beakerCount :
                /\ beakers'[b].contents = Append(beakers[b].contents, lastOp'.id)
                /\ \A c \in (1..beakerCount) \ {b} : beakers'[c] = beakers[c]
        ELSE beakers' = beakers ]_vars

C9_Witness ==
    /\ lastOp.kind = "drop"
    /\ lastOp.id \in CatalogIds
    /\ \E b \in 1..beakerCount :
          /\ Len(beakers[b].contents) >= 2
          /\ beakers[b].contents[1] # beakers[b].contents[2]
          /\ lastOp.idx = b - 1

\* C10: when the marker created by dropping molecule M is picked and a
\* receptor is selected, the molecule handed to the effect model is M.
C10_PickedMoleculeIsDropped ==
    (lastOp.kind = "pick" /\ lastOp.hit # {} /\ lastOp.invoked)
        => \A m \in lastOp.hit : lastOp.mol = m.from

====
